---- MODULE Spec2Model ----
(***************************************************************************)
(* State-machine model of rljax: the replay buffer of                      *)
(* rljax/common/buffer.py, the step / is_update control contract of the    *)
(* algorithm base classes of rljax/algorithm/base.py, and the training     *)
(* loop that drives an algorithm and the buffer it owns.                   *)
(***************************************************************************)
EXTENDS Integers, Sequences, FiniteSets, TLC

VARIABLES
    pc,       \* "new" before ReplayBuffer.__init__ has run, "ready" after it returned
    buffer,   \* the ReplayBuffer object: _n, _p, buffer_size and the five arrays
    call,     \* the most recent call on the buffer: its arguments, the object before it, its outcome
    hist,     \* history: the transitions whose append returned, oldest first
    apc,      \* "new" before an algorithm is constructed, "ready" after, "rejected" when __init__ raised
    algo,     \* the algorithm object: its counters and hyperparameters
    env,      \* the environment collaborator: episode limit, elapsed steps, ticks and resets so far
    loop,     \* the training loop's locals: the current state and the episode step counter t
    acall,    \* the most recent call on the algorithm: its arguments and its outcome
    log,      \* history: the number of step calls made, of buffer.append calls issued, and
              \* of actions drawn from env.action_space.sample and from explore
    owned,    \* the buffer the algorithm owns (self.buffer) when a training loop drives it
    lpc,      \* the training loop's position: "idle", "step", "poll", "update" or "crashed"
    per       \* a PrioritizedReplayBuffer: cursor, fill count and the priority of every slot

bvars == <<pc, buffer, call, hist>>

avars == <<apc, algo, env, loop, acall, log>>

lvars == <<owned, lpc, per>>

vars == <<pc, buffer, call, hist, apc, algo, env, loop, acall, log, owned, lpc, per>>

----------------------------------------------------------------------------
(* Bounds of the exploration.                                              *)

\* largest capacity a buffer is constructed with
MaxBufferSize == 3

\* number of appends that return on one buffer
MaxAppends == 7

\* batch sizes sample is called with
BatchSizes == {1, 2}

\* the action-space kinds a buffer is constructed with; MultiBinary stands for
\* every gym space whose type is neither Box nor Discrete
ActionSpaces == {"Box", "Discrete", "MultiBinary"}

\* the transitions handed to append: they differ in every field
Transitions ==
    { [state |-> 1, action |-> 0, reward |-> 2, done |-> TRUE,  next_state |-> 2],
      [state |-> 2, action |-> 1, reward |-> 0, done |-> FALSE, next_state |-> 1] }

\* largest env_step a run reaches
MaxEnvStep == 20

\* env._max_episode_steps of the environments stepped
EpisodeLimits == {3}

\* what env.step returns as next state, and what env.reset returns
Observations == {1}

ResetStates == {0}

\* hyperparameters the algorithms are constructed with
RolloutSizes == {2, 3}

StartSteps == {0, 10}

UpdateIntervals == {1, 4}

TargetIntervals == {<<>>, <<0>>, <<2>>}

Taus == {<<>>, <<0>>, <<5>>}

\* what np.empty may leave in a freshly allocated array
Garbage == {0, 1}

NoTransition == [state |-> 0, action |-> 0, reward |-> 0, done |-> FALSE, next_state |-> 0]

----------------------------------------------------------------------------
(* Helpers.                                                                *)

Min(a, b) == IF a < b THEN a ELSE b

\* float(x) of a Python bool: True -> 1.0, False -> 0.0
Float(b) == IF b THEN 1 ELSE 0

\* np.empty((buffer_size, ...)): buffer_size slots holding arbitrary values
Empty(buffer_size, g) == [i \in 0 .. buffer_size - 1 |-> g]

NoArray == [i \in {} |-> 0]

NoBuffer ==
    [_n |-> 0, _p |-> 0, buffer_size |-> 0, state |-> NoArray, reward |-> NoArray,
     done |-> NoArray, next_state |-> NoArray, has_action |-> FALSE, action |-> NoArray]

NoCall ==
    [op |-> "none", raised |-> "none", before |-> NoBuffer, arg |-> NoTransition,
     action_space |-> "none", batch_size |-> 0, idxes |-> <<>>, batch |-> <<>>]

----------------------------------------------------------------------------
(* ReplayBuffer.__init__                                                   *)

\* lines 22-27: the action array exists only for Box and Discrete; the else
\* branch evaluates the name NotImplementedError and raises nothing
HasActionStorage(action_space) == action_space \in {"Box", "Discrete"}

NewBuffer(buffer_size, action_space, g) ==
    [_n |-> 0,
     _p |-> 0,
     buffer_size |-> buffer_size,
     state |-> Empty(buffer_size, g),
     reward |-> Empty(buffer_size, g),
     done |-> Empty(buffer_size, g),
     next_state |-> Empty(buffer_size, g),
     has_action |-> HasActionStorage(action_space),
     action |-> IF HasActionStorage(action_space) THEN Empty(buffer_size, g) ELSE NoArray]

ReplayBuffer__init__(buffer_size, action_space, g) ==
    /\ pc = "new"
    /\ pc' = "ready"
    /\ buffer' = NewBuffer(buffer_size, action_space, g)
    /\ call' = [NoCall EXCEPT !.op = "__init__", !.action_space = action_space]
    /\ UNCHANGED hist
    /\ UNCHANGED avars

----------------------------------------------------------------------------
(* ReplayBuffer.append                                                     *)

\* a cursor that is never advanced
NextP_NoAdvance(buf) == buf._p

\* a cursor that moves towards slot 0 and wraps to the last slot
NextP_Backwards(buf) == (buf._p + buf.buffer_size - 1) % buf.buffer_size

\* line 36
NextP(buf) == (buf._p + 1) % buf.buffer_size

\* a fill count that is not capped at the capacity
NextN_NoCap(buf) == buf._n + 1

\* line 37
NextN(buf) == Min(buf._n + 1, buf.buffer_size)

\* line 30: the write that precedes the access to self.action
WriteState(buf, tr) == [buf EXCEPT !.state[buf._p] = tr.state]

\* lines 30-34: the five writes into slot _p
WriteSlot(buf, tr) ==
    [buf EXCEPT !.state[buf._p] = tr.state,
                !.action[buf._p] = tr.action,
                !.reward[buf._p] = tr.reward,
                !.done[buf._p] = Float(tr.done),
                !.next_state[buf._p] = tr.next_state]

\* lines 36-37
Advance(buf) == [buf EXCEPT !._p = NextP(buf), !._n = NextN(buf)]

append(tr) ==
    /\ pc = "ready"
    /\ Len(hist) < MaxAppends
    /\ IF buffer.has_action
       THEN /\ buffer' = Advance(WriteSlot(buffer, tr))
            /\ hist' = Append(hist, tr)
            /\ call' = [NoCall EXCEPT !.op = "append", !.before = buffer, !.arg = tr]
       ELSE \* line 31 raises: self.action does not exist; line 30 has run
            /\ buffer' = WriteState(buffer, tr)
            /\ hist' = hist
            /\ call' = [NoCall EXCEPT !.op = "append", !.raised = "AttributeError",
                                      !.before = buffer, !.arg = tr]
    /\ UNCHANGED pc
    /\ UNCHANGED avars

----------------------------------------------------------------------------
(* ReplayBuffer.sample                                                     *)

\* indices drawn below the capacity instead of below the fill count
Randint_Capacity(buf, batch_size) == [1 .. batch_size -> 0 .. buf.buffer_size - 1]

\* indices drawn from [0, max(_n, 1))
Randint_AtLeastOne(buf, batch_size) ==
    [1 .. batch_size -> 0 .. (IF buf._n = 0 THEN 1 ELSE buf._n) - 1]

\* line 40: every array of batch_size indices that
\* np.random.randint(low=0, high=_n, size=batch_size) may return; there is none
\* when _n = 0 and batch_size >= 1, and randint then raises ValueError("low >= high")
Randint(buf, batch_size) == [1 .. batch_size -> 0 .. buf._n - 1]

\* lines 41-47: the five arrays gathered at idxes
Gather(buf, idxes) ==
    [k \in DOMAIN idxes |->
        [state |-> buf.state[idxes[k]],
         action |-> buf.action[idxes[k]],
         reward |-> buf.reward[idxes[k]],
         done |-> buf.done[idxes[k]],
         next_state |-> buf.next_state[idxes[k]]]]

sample(batch_size) ==
    /\ pc = "ready"
    /\ IF Randint(buffer, batch_size) = {}
       THEN call' = [NoCall EXCEPT !.op = "sample", !.raised = "ValueError",
                                   !.before = buffer, !.batch_size = batch_size]
       ELSE \E idxes \in Randint(buffer, batch_size) :
              IF buffer.has_action
              THEN call' = [NoCall EXCEPT !.op = "sample", !.before = buffer,
                                          !.batch_size = batch_size, !.idxes = idxes,
                                          !.batch = Gather(buffer, idxes)]
              ELSE call' = [NoCall EXCEPT !.op = "sample", !.raised = "AttributeError",
                                          !.before = buffer, !.batch_size = batch_size]
    /\ UNCHANGED <<pc, buffer, hist>>
    /\ UNCHANGED avars

\* no buffer constructed yet
InitBuffer ==
    /\ pc = "new"
    /\ buffer = NoBuffer
    /\ call = NoCall
    /\ hist = <<>>

----------------------------------------------------------------------------
(* Algorithm, OnPolicyActorCritic and OffPolicyAlgorithm: construction.    *)

\* an optional argument: <<>> is None, <<v>> is the value v
None == <<>>

\* Python truthiness of an optional number: None and 0 are false
Truthy(v) == v # None /\ v[1] # 0

\* tau = 1.0 of the hard copy, in thousandths
HardCopyTau == 1000

NoAlgo ==
    [kind |-> "none", env_step |-> 0, learning_step |-> 0, fake_action |-> "none",
     buffer_size |-> 0, start_steps |-> 0, update_interval |-> 0,
     update_interval_target |-> None, tau |-> None]

NoEnv == [_max_episode_steps |-> 0, elapsed |-> 0, ticks |-> 0, resets |-> 0]

NoLoop == [state |-> 0, t |-> 0]

NoACall ==
    [op |-> "none", raised |-> "none", result |-> FALSE,
     update_interval_target |-> None, tau |-> None,
     env_step |-> 0, ticks |-> 0, appends |-> 0, resets |-> 0, state |-> 0, t |-> 0,
     source |-> "none", next_state |-> 0, done |-> FALSE, terminated |-> FALSE,
     mask |-> FALSE, ret_state |-> 0, ret_t |-> 0]

NoAppend ==
    [state |-> 0, source |-> "none", mask |-> FALSE, next_state |-> 0, last_arg |-> "none"]

NoLog == [steps |-> 0, appends |-> 0, sampled |-> 0, explored |-> 0, last |-> NoAppend]

\* lines 26-43: the counters start at 0; fake_action is a sample of the action
\* space for a Box and None for every other space
Algorithm__init__(kind, action_space) ==
    [NoAlgo EXCEPT !.kind = kind,
                   !.env_step = 0,
                   !.learning_step = 0,
                   !.fake_action = IF action_space = "Box" THEN "sample" ELSE "None"]

\* lines 81-95
OnPolicyActorCritic__init__(action_space, buffer_size) ==
    /\ apc = "new"
    /\ apc' = "ready"
    /\ algo' = [Algorithm__init__("on", action_space) EXCEPT !.buffer_size = buffer_size]
    /\ acall' = [NoACall EXCEPT !.op = "OnPolicyActorCritic.__init__"]
    /\ UNCHANGED <<env, loop, log>>

\* an assertion that demands exactly one of the two
AssertPasses_ExactlyOne(update_interval_target, tau) ==
    Truthy(update_interval_target) # Truthy(tau)

\* line 153: assert update_interval_target or tau
AssertPasses(update_interval_target, tau) ==
    Truthy(update_interval_target) \/ Truthy(tau)

\* a target update that blends with the tau it was handed whenever there is one
TargetTau_PreferTau(update_interval_target, tau) ==
    IF Truthy(tau) THEN tau ELSE <<HardCopyTau>>

\* lines 185-189: the coefficient bound into _update_target
TargetTau(update_interval_target, tau) ==
    IF Truthy(update_interval_target) THEN <<HardCopyTau>> ELSE tau

\* lines 153-189
OffPolicyAlgorithm__init__(action_space, start_steps, update_interval, update_interval_target, tau) ==
    /\ apc = "new"
    /\ IF AssertPasses(update_interval_target, tau)
       THEN /\ apc' = "ready"
            /\ algo' = [Algorithm__init__("off", action_space) EXCEPT
                          !.start_steps = start_steps,
                          !.update_interval = update_interval,
                          !.update_interval_target =
                              IF Truthy(update_interval_target)
                              THEN update_interval_target ELSE None,
                          !.tau = TargetTau(update_interval_target, tau)]
            /\ acall' = [NoACall EXCEPT !.op = "OffPolicyAlgorithm.__init__",
                                        !.update_interval_target = update_interval_target,
                                        !.tau = tau]
       ELSE /\ apc' = "rejected"
            /\ algo' = algo
            /\ acall' = [NoACall EXCEPT !.op = "OffPolicyAlgorithm.__init__",
                                        !.raised = "AssertionError",
                                        !.update_interval_target = update_interval_target,
                                        !.tau = tau]
    /\ UNCHANGED <<env, loop, log>>

\* lines 294-309: QLearning hands its update_interval_target to
\* OffPolicyAlgorithm.__init__ and no tau, which is then the default None
QLearning__init__(action_space, start_steps, update_interval, update_interval_target) ==
    OffPolicyAlgorithm__init__(action_space, start_steps, update_interval,
                               update_interval_target, None)

----------------------------------------------------------------------------
(* is_update.                                                              *)

\* an update gate that stays shut before the first step
OnPolicy_is_update_NotAtZero(a) == a.env_step > 0 /\ a.env_step % a.buffer_size = 0

\* an update gate that opens one step early
OnPolicy_is_update_Early(a) == (a.env_step + 1) % a.buffer_size = 0

\* line 114
OnPolicy_is_update(a) == a.env_step % a.buffer_size = 0

\* an update gate that ignores the warm-up
OffPolicy_is_update_NoWarmUp(a) == a.env_step % a.update_interval = 0

\* an update gate that opens only after the warm-up
OffPolicy_is_update_Strict(a) ==
    a.env_step % a.update_interval = 0 /\ a.env_step > a.start_steps

\* line 192
OffPolicy_is_update(a) ==
    a.env_step % a.update_interval = 0 /\ a.env_step >= a.start_steps

is_update ==
    /\ apc = "ready"
    /\ acall' = [NoACall EXCEPT
                   !.op = "is_update",
                   !.env_step = algo.env_step,
                   !.ticks = env.ticks,
                   !.appends = log.appends,
                   !.resets = env.resets,
                   !.result = IF algo.kind = "on" THEN OnPolicy_is_update(algo)
                                                  ELSE OffPolicy_is_update(algo)]
    /\ UNCHANGED <<apc, algo, env, loop, log>>

----------------------------------------------------------------------------
(* step.                                                                   *)

\* an env_step that is left as it was
IncEnvStep_Forgotten(a) == a

\* lines 118 and 200: self.env_step += 1
IncEnvStep(a) == [a EXCEPT !.env_step = @ + 1]

\* a warm-up that ends one step early
ActionSource_Early(a) ==
    IF a.kind = "off" /\ a.env_step < a.start_steps
    THEN "env.action_space.sample" ELSE "explore"

\* lines 202-205: where the action comes from (a is the object after line 200)
ActionSource(a) ==
    IF a.kind = "off" /\ a.env_step <= a.start_steps
    THEN "env.action_space.sample" ELSE "explore"

\* env.step of a time-limited environment: the episode is done when the
\* environment terminated or when its step limit is reached
EnvDone(e, terminated) == terminated \/ e.elapsed + 1 >= e._max_episode_steps

\* a mask that is the done flag
Mask_Done(t, max_episode_steps, done) == done

\* lines 122 and 208: mask = False if t == env._max_episode_steps else done
Mask(t, max_episode_steps, done) == IF t = max_episode_steps THEN FALSE ELSE done

\* lines 123 and 209: the argument that follows the mask and the next state;
\* the rollout buffer is handed log_pi, the replay buffer the done flag
AppendLastArg(a, done) ==
    IF a.kind = "on" THEN "log_pi" ELSE IF done THEN "done=True" ELSE "done=False"

\* a step that hands back the terminal state and keeps counting
Returned_NoReset(t, next_state, done, reset_state) == [state |-> next_state, t |-> t]

\* lines 125-129 and 211-215: what step returns
Returned(t, next_state, done, reset_state) ==
    IF done THEN [state |-> reset_state, t |-> 0] ELSE [state |-> next_state, t |-> t]

\* lines 116-129 and 198-215: one call step(env, state, t); next_state and
\* terminated are what env.step answers, reset_state what env.reset answers
step(state, t, next_state, terminated, reset_state) ==
    /\ apc = "ready"
    /\ algo.env_step < MaxEnvStep
    /\ LET a1   == IncEnvStep(algo)
           t1   == t + 1
           src  == ActionSource(a1)
           done == EnvDone(env, terminated)
           mask == Mask(t1, env._max_episode_steps, done)
           ret  == Returned(t1, next_state, done, reset_state)
       IN /\ algo' = a1
          /\ env' = [env EXCEPT !.ticks = @ + 1,
                                !.elapsed = IF done THEN 0 ELSE @ + 1,
                                !.resets = IF done THEN @ + 1 ELSE @]
          /\ log' = [log EXCEPT !.steps = @ + 1,
                                !.appends = @ + 1,
                                !.sampled = IF src = "explore" THEN @ ELSE @ + 1,
                                !.explored = IF src = "explore" THEN @ + 1 ELSE @,
                                !.last = [state |-> state, source |-> src, mask |-> mask,
                                          next_state |-> next_state,
                                          last_arg |-> AppendLastArg(a1, done)]]
          /\ loop' = ret
          /\ acall' = [NoACall EXCEPT
                         !.op = "step", !.env_step = algo.env_step, !.ticks = env.ticks,
                         !.appends = log.appends, !.resets = env.resets,
                         !.state = state, !.t = t, !.source = src,
                         !.next_state = next_state, !.done = done,
                         !.terminated = terminated, !.mask = mask,
                         !.ret_state = ret.state, !.ret_t = ret.t]
    /\ UNCHANGED apc

----------------------------------------------------------------------------
(* The buffers of rljax.buffer that an algorithm owns: the rollout buffer  *)
(* and the n-step accumulator in front of the circular storage.            *)

\* the n-step counts and the discount factors (in tenths) a replay buffer is
\* constructed with
NSteps == {1, 2, 3}

Gammas == {9}

NoOwned ==
    [cls |-> "none", capacity |-> 0, ptr |-> 0, drains |-> 0, drained |-> 0,
     nstep |-> 0, gamma |-> 0, window |-> <<>>, emitted |-> <<>>, episode |-> <<>>,
     committed |-> 0, raised |-> "none", learning_step |-> 0]

\* RolloutBuffer(buffer_size): the write pointer starts at 0
NewRolloutBuffer(buffer_size) ==
    [NoOwned EXCEPT !.cls = "RolloutBuffer", !.capacity = buffer_size]

\* RolloutBuffer.append: writes at the write pointer and advances it; a call
\* beyond the capacity raises
RolloutBuffer_append(o) ==
    IF o.ptr >= o.capacity
    THEN [o EXCEPT !.raised = "BufferOverflowError"]
    ELSE [o EXCEPT !.ptr = @ + 1]

\* RolloutBuffer.get: hands out the whole contents and resets the write pointer
RolloutBuffer_get(o) ==
    [o EXCEPT !.ptr = 0, !.drains = @ + 1, !.drained = o.ptr]

\* ReplayBuffer(buffer_size, gamma, nstep): an empty window
NewNStepBuffer(buffer_size, gamma, nstep) ==
    [NoOwned EXCEPT !.cls = "ReplayBuffer", !.capacity = buffer_size,
                    !.gamma = gamma, !.nstep = nstep]

RECURSIVE Pow(_, _)
Pow(b, e) == IF e = 0 THEN 1 ELSE b * Pow(b, e - 1)

\* the index of the first done element of a window, its length when there is none
FirstDone(w) ==
    IF \E i \in 1 .. Len(w) : w[i].done
    THEN CHOOSE i \in 1 .. Len(w) : w[i].done /\ \A j \in 1 .. i - 1 : ~w[j].done
    ELSE Len(w)

\* sum of gamma^(i-1) * reward_i up to the first done; gamma is in tenths, so
\* the sum is in units of 10^-(nstep-1)
RECURSIVE DiscountedSum(_, _, _, _)
DiscountedSum(w, gamma, nstep, i) ==
    IF i > FirstDone(w) THEN 0
    ELSE Pow(gamma, i - 1) * Pow(10, nstep - i) * w[i].reward
             + DiscountedSum(w, gamma, nstep, i + 1)

\* the folded transition of a window
Fold(w, gamma, nstep) ==
    [state |-> w[1].state,
     action |-> w[1].action,
     reward |-> DiscountedSum(w, gamma, nstep, 1),
     done |-> \E i \in 1 .. Len(w) : w[i].done,
     next_state |-> w[Len(w)].next_state]

\* a raw transition is terminal when it is done or ends the episode
Terminal(raw) == raw.done \/ raw.episode_done

\* feed(raw): push; a terminal raw transition flushes every suffix window; a
\* full window emits one fold and drops its oldest element; otherwise nothing
NStep_feed(o, raw) ==
    LET w == Append(o.window, raw)
    IN IF Terminal(raw)
       THEN [o EXCEPT !.window = <<>>,
                      !.emitted = [i \in 1 .. Len(w) |->
                                      Fold(SubSeq(w, i, Len(w)), o.gamma, o.nstep)]]
       ELSE IF Len(w) = o.nstep
       THEN [o EXCEPT !.window = Tail(w), !.emitted = <<Fold(w, o.gamma, o.nstep)>>]
       ELSE [o EXCEPT !.window = w, !.emitted = <<>>]

\* the folds a feed emitted go into the circular storage, oldest first
RECURSIVE CommitAll(_, _)
CommitAll(buf, folds) ==
    IF folds = <<>> THEN buf
    ELSE CommitAll(Advance(WriteSlot(buf, Head(folds))), Tail(folds))

NoPer ==
    [_p |-> 0, _n |-> 0, buffer_size |-> 0, priority |-> NoArray, max_priority |-> 0,
     observed |-> {}, last |-> NoArray, appends |-> 0, ops |-> 0, op |-> "none",
     slot |-> 0, prev |-> 0]

InitLoopIdle ==
    /\ owned = NoOwned
    /\ lpc = "idle"
    /\ per = NoPer

----------------------------------------------------------------------------
(* The algorithm driven by a training loop.                                *)

InitAlgoIdle ==
    /\ apc = "new"
    /\ algo = NoAlgo
    /\ env = NoEnv
    /\ loop = NoLoop
    /\ acall = NoACall
    /\ log = NoLog
    /\ InitLoopIdle

\* gym.make and the first env.reset of the loop
InitAlgo ==
    /\ InitBuffer
    /\ apc = "new"
    /\ algo = NoAlgo
    /\ \E m \in EpisodeLimits : env = [NoEnv EXCEPT !._max_episode_steps = m]
    /\ \E s0 \in ResetStates : loop = [state |-> s0, t |-> 0]
    /\ acall = NoACall
    /\ log = NoLog
    /\ InitLoopIdle

ConstructOnPolicy ==
    \E action_space \in ActionSpaces, buffer_size \in RolloutSizes :
        /\ OnPolicyActorCritic__init__(action_space, buffer_size)
        /\ UNCHANGED <<bvars, lvars>>

ConstructOffPolicy ==
    \E action_space \in ActionSpaces, start_steps \in StartSteps,
       update_interval \in UpdateIntervals,
       update_interval_target \in TargetIntervals, tau \in Taus :
        /\ OffPolicyAlgorithm__init__(action_space, start_steps, update_interval,
                                      update_interval_target, tau)
        /\ UNCHANGED <<bvars, lvars>>

ConstructQLearning ==
    \E action_space \in ActionSpaces, start_steps \in StartSteps,
       update_interval \in UpdateIntervals, update_interval_target \in TargetIntervals :
        /\ QLearning__init__(action_space, start_steps, update_interval,
                             update_interval_target)
        /\ UNCHANGED <<bvars, lvars>>

PollIsUpdate == is_update /\ UNCHANGED <<bvars, lvars>>

\* the loop hands step the state and t that the previous step returned
TrainerStep ==
    \E next_state \in Observations, terminated \in BOOLEAN, reset_state \in ResetStates :
        /\ step(loop.state, loop.t, next_state, terminated, reset_state)
        /\ UNCHANGED <<bvars, lvars>>

NextAlgo ==
    ConstructOnPolicy \/ ConstructOffPolicy \/ ConstructQLearning \/ PollIsUpdate
        \/ TrainerStep

SpecAlgo == InitAlgo /\ [][NextAlgo]_vars

----------------------------------------------------------------------------
(* The training loop: step, then update when is_update() answers True.     *)

\* number of steps the loop takes (num_agent_steps)
MaxLoopSteps == 6

\* capacities of the owned buffer
LoopCapacities == 1 .. MaxBufferSize

\* the loop runs continuous-control environments
LoopActionSpaces == {"Box"}

\* warm-up lengths and update intervals of the algorithms the loop drives
LoopStartSteps == {0, 2}

LoopUpdateIntervals == {1, 2}

\* the environment rewards its k-th tick with k
Reward(e) == e.ticks + 1

\* the action stored: 0 when drawn from env.action_space.sample, 1 from explore
ActionValue(source) == IF source = "explore" THEN 1 ELSE 0

\* an append that is not told that the episode ended
ReplayAppendArgs_NoEpisodeDone(state, action, reward, mask, next_state, done) ==
    [state |-> state, action |-> action, reward |-> reward, done |-> mask,
     next_state |-> next_state, episode_done |-> mask]

\* line 209: self.buffer.append(state, action, reward, mask, next_state, done);
\* the fourth argument is the transition's done flag, the sixth says that the
\* episode ended
ReplayAppendArgs(state, action, reward, mask, next_state, done) ==
    [state |-> state, action |-> action, reward |-> reward, done |-> mask,
     next_state |-> next_state, episode_done |-> done]

\* lines 81-95: the algorithm and its RolloutBuffer(buffer_size)
LoopConstructOnPolicy ==
    /\ lpc = "idle"
    /\ \E action_space \in LoopActionSpaces, buffer_size \in LoopCapacities :
          /\ OnPolicyActorCritic__init__(action_space, buffer_size)
          /\ owned' = NewRolloutBuffer(buffer_size)
    /\ lpc' = "step"
    /\ UNCHANGED <<bvars, per>>

\* lines 153-189: the algorithm and its ReplayBuffer(buffer_size, gamma, nstep),
\* whose circular storage is allocated as in ReplayBuffer.__init__
LoopConstructOffPolicy ==
    /\ lpc = "idle"
    /\ pc = "new"
    /\ \E action_space \in LoopActionSpaces, start_steps \in LoopStartSteps,
          update_interval \in LoopUpdateIntervals, buffer_size \in LoopCapacities,
          nstep \in NSteps, gamma \in Gammas, g \in Garbage :
          /\ OffPolicyAlgorithm__init__(action_space, start_steps, update_interval,
                                        <<2>>, None)
          /\ owned' = NewNStepBuffer(buffer_size, gamma, nstep)
          /\ buffer' = NewBuffer(buffer_size, action_space, g)
          /\ call' = [NoCall EXCEPT !.op = "__init__", !.action_space = action_space]
    /\ pc' = "ready"
    /\ lpc' = "step"
    /\ UNCHANGED <<hist, per>>

\* lines 116-129: step, whose append goes to the rollout buffer
LoopStepOnPolicy ==
    /\ lpc = "step"
    /\ algo.kind = "on"
    /\ algo.env_step < MaxLoopSteps
    /\ \E next_state \in Observations, terminated \in BOOLEAN, reset_state \in ResetStates :
          step(loop.state, loop.t, next_state, terminated, reset_state)
    /\ owned' = RolloutBuffer_append(owned)
    /\ lpc' = IF owned'.raised = "none" THEN "poll" ELSE "crashed"
    /\ UNCHANGED <<bvars, per>>

\* lines 198-215: step, whose append goes through the n-step accumulator into
\* the circular storage; episode and committed count the raw transitions fed
\* and the folds committed since the episode began
LoopStepOffPolicy ==
    /\ lpc = "step"
    /\ algo.kind = "off"
    /\ algo.env_step < MaxLoopSteps
    /\ \E next_state \in Observations, terminated \in BOOLEAN, reset_state \in ResetStates :
          step(loop.state, loop.t, next_state, terminated, reset_state)
    /\ LET raw == ReplayAppendArgs(acall'.state, ActionValue(acall'.source), Reward(env),
                                   acall'.mask, acall'.next_state, acall'.done)
           fed == NStep_feed(owned, raw)
       IN /\ owned' = [fed EXCEPT
                         !.episode = IF env.elapsed = 0 THEN <<raw>> ELSE Append(@, raw),
                         !.committed = (IF env.elapsed = 0 THEN 0 ELSE @) + Len(fed.emitted)]
          /\ buffer' = CommitAll(buffer, fed.emitted)
    /\ lpc' = "poll"
    /\ UNCHANGED <<pc, call, hist, per>>

\* if algo.is_update():
LoopPoll ==
    /\ lpc = "poll"
    /\ is_update
    /\ lpc' = IF acall'.result THEN "update" ELSE "step"
    /\ UNCHANGED <<bvars, owned, per>>

\* update of an on-policy algorithm: drains the rollout buffer, then learns
LoopUpdateOnPolicy ==
    /\ lpc = "update"
    /\ algo.kind = "on"
    /\ owned' = [RolloutBuffer_get(owned) EXCEPT !.learning_step = @ + 1]
    /\ lpc' = "step"
    /\ UNCHANGED <<bvars, avars, per>>

\* update of an off-policy algorithm: samples the storage, then learns
LoopUpdateOffPolicy ==
    /\ lpc = "update"
    /\ algo.kind = "off"
    /\ \E batch_size \in BatchSizes : sample(batch_size)
    /\ owned' = [owned EXCEPT !.raised = call'.raised,
                              !.learning_step = IF call'.raised = "none" THEN @ + 1 ELSE @]
    /\ lpc' = IF call'.raised = "none" THEN "step" ELSE "crashed"
    /\ UNCHANGED per

NextLoop ==
    LoopConstructOnPolicy \/ LoopConstructOffPolicy \/ LoopStepOnPolicy
        \/ LoopStepOffPolicy \/ LoopPoll \/ LoopUpdateOnPolicy \/ LoopUpdateOffPolicy

SpecLoop == InitAlgo /\ [][NextLoop]_vars

\* nothing constructed yet
Init ==
    /\ InitBuffer
    /\ InitAlgoIdle

----------------------------------------------------------------------------
(* PrioritizedReplayBuffer: the circular write of ReplayBuffer.append and  *)
(* a priority for every slot.                                              *)

\* number of append and update_priority calls on one buffer
MaxPerOps == 8

\* the priorities the learner hands to update_priority
PriorityValues == {1, 2, 3}

\* the running maximum a fresh buffer starts with
InitialPriorities == {1, 2}

Max(a, b) == IF a > b THEN a ELSE b

\* a fresh buffer: no slot has a priority yet (0); observed collects every
\* priority value seen so far; last[i] is the value of the last write aimed at
\* slot i, the k-th append (from 0) being aimed at slot k mod buffer_size
PrioritizedReplayBuffer__init__(buffer_size, p0) ==
    /\ per.op = "none"
    /\ per' = [NoPer EXCEPT !.buffer_size = buffer_size,
                            !.priority = [i \in 0 .. buffer_size - 1 |-> 0],
                            !.last = [i \in 0 .. buffer_size - 1 |-> 0],
                            !.max_priority = p0,
                            !.observed = {p0},
                            !.op = "__init__"]

\* append: the circular write of section 4.1; the slot written gets the
\* running maximum priority
PrioritizedReplayBuffer_append ==
    /\ per.op # "none"
    /\ per.ops < MaxPerOps
    /\ per' = [per EXCEPT !.priority[per._p] = per.max_priority,
                          !._p = NextP(per),
                          !._n = NextN(per),
                          !.last[per.appends % per.buffer_size] = per.max_priority,
                          !.appends = @ + 1,
                          !.ops = @ + 1,
                          !.op = "append",
                          !.slot = per._p,
                          !.prev = per.priority[per._p]]

\* update_priority(idx, v): overwrites the priority of slot idx; the running
\* maximum follows
PrioritizedReplayBuffer_update_priority(idx, v) ==
    /\ per.op # "none"
    /\ per.ops < MaxPerOps
    /\ idx < per._n
    /\ per' = [per EXCEPT !.priority[idx] = v,
                          !.max_priority = Max(@, v),
                          !.observed = @ \cup {v},
                          !.last[idx] = v,
                          !.ops = @ + 1,
                          !.op = "update_priority",
                          !.slot = idx,
                          !.prev = per.priority[idx]]

PerConstruct ==
    /\ \E buffer_size \in 1 .. MaxBufferSize, p0 \in InitialPriorities :
          PrioritizedReplayBuffer__init__(buffer_size, p0)
    /\ UNCHANGED <<bvars, avars, owned, lpc>>

PerAppend == PrioritizedReplayBuffer_append /\ UNCHANGED <<bvars, avars, owned, lpc>>

PerUpdatePriority ==
    /\ \E idx \in 0 .. MaxBufferSize, v \in PriorityValues :
          PrioritizedReplayBuffer_update_priority(idx, v)
    /\ UNCHANGED <<bvars, avars, owned, lpc>>

NextPer == PerConstruct \/ PerAppend \/ PerUpdatePriority

SpecPer == Init /\ [][NextPer]_vars

----------------------------------------------------------------------------
(* The buffer driven by arbitrary callers.                                 *)

Construct ==
    \E buffer_size \in 1 .. MaxBufferSize, action_space \in ActionSpaces, g \in Garbage :
        /\ ReplayBuffer__init__(buffer_size, action_space, g)
        /\ UNCHANGED lvars

DoAppend == \E tr \in Transitions : append(tr) /\ UNCHANGED lvars

DoSample == \E batch_size \in BatchSizes : sample(batch_size) /\ UNCHANGED lvars

Next == Construct \/ DoAppend \/ DoSample

Spec == Init /\ [][Next]_vars

----------------------------------------------------------------------------
(* The end-to-end example: a buffer of capacity 5 and 7 appends.           *)

\* the transition numbered j (from 1): its state is its number; the action is free
NumberedTransition(j, a) ==
    [state |-> j, action |-> a, reward |-> 10 * j, done |-> (j % 2 = 0),
     next_state |-> j + 1]

ConstructExample ==
    \E action_space \in {"Box", "Discrete"}, g \in Garbage :
        /\ ReplayBuffer__init__(5, action_space, g)
        /\ UNCHANGED lvars

AppendNumbered ==
    /\ Len(hist) < 7
    /\ \E a \in {0, 1} : append(NumberedTransition(Len(hist) + 1, a))
    /\ UNCHANGED lvars

NextExample == ConstructExample \/ AppendNumbered \/ DoSample

SpecExample == Init /\ [][NextExample]_vars

----------------------------------------------------------------------------
(* Properties of the replay buffer.                                        *)

\* slot i of a buffer, as one record of its five arrays
Slot(buf, i) ==
    [state |-> buf.state[i], action |-> buf.action[i], reward |-> buf.reward[i],
     done |-> buf.done[i], next_state |-> buf.next_state[i]]

\* a transition as the arrays hold it: done is kept as a float
Stored(tr) ==
    [state |-> tr.state, action |-> tr.action, reward |-> tr.reward,
     done |-> IF tr.done THEN 1 ELSE 0, next_state |-> tr.next_state]

\* the append numbers (counted from 0) of the appends that returned and wrote slot i
WritersOf(i) == {j \in 0 .. Len(hist) - 1 : j % buffer.buffer_size = i}

\* the greatest number of a finite, non-empty set of numbers
Greatest(S) == CHOOSE x \in S : \A y \in S : y <= x

\* C1: after k >= C appends the fill count is C, the transition with append
\* number j (k-C <= j < k) is stored at slot j mod C, and every slot holds one
\* of these C most recent transitions, so every older one is overwritten.
C1_OverwriteCorrectness ==
    (pc = "ready" /\ Len(hist) >= buffer.buffer_size) =>
        /\ buffer._n = buffer.buffer_size
        /\ \A j \in Len(hist) - buffer.buffer_size .. Len(hist) - 1 :
               Slot(buffer, j % buffer.buffer_size) = Stored(hist[j + 1])
        /\ \A i \in 0 .. buffer.buffer_size - 1 :
               /\ WritersOf(i) # {}
               /\ Greatest(WritersOf(i)) >= Len(hist) - buffer.buffer_size
               /\ Slot(buffer, i) = Stored(hist[Greatest(WritersOf(i)) + 1])

\* C1 witness: a buffer of capacity 3 after 5 appends, the last two of which
\* overwrote slots 0 and 1 with a transition unlike the one they held.
C1_Witness ==
    /\ pc = "ready"
    /\ buffer.buffer_size = 3
    /\ Len(hist) = 5
    /\ hist[1] # hist[4]
    /\ hist[2] # hist[5]
    /\ call.op = "append"

\* C2 (as claimed): every append writes the five fields into slot p and only
\* slot p, sets p' = (p+1) mod C and n' = min(n+1, C), and never fails.
C2_AppendNeverFails ==
    call.op = "append" =>
        /\ call.raised = "none"
        /\ buffer._p = (call.before._p + 1) % call.before.buffer_size
        /\ buffer._n = IF call.before._n + 1 <= call.before.buffer_size
                       THEN call.before._n + 1 ELSE call.before.buffer_size
        /\ Slot(buffer, call.before._p) = Stored(call.arg)
        /\ \A i \in 0 .. buffer.buffer_size - 1 :
               i # call.before._p => Slot(buffer, i) = Slot(call.before, i)

\* C3: 0 <= p < C and 0 <= n <= C; no call decreases n; while n < C exactly the
\* slots [0, n) have been written and p = n; once n = C every slot has been
\* written and p is the slot of the oldest stored transition. A slot has been
\* written when an append that returned stored a transition in it, and it
\* then holds the last transition so stored.
C3_CursorAndFillInvariant ==
    pc = "ready" =>
        /\ buffer._p \in 0 .. buffer.buffer_size - 1
        /\ buffer._n \in 0 .. buffer.buffer_size
        /\ call.op \in {"append", "sample"} => buffer._n >= call.before._n
        /\ \A i \in 0 .. buffer.buffer_size - 1 :
               WritersOf(i) # {} =>
                   Slot(buffer, i) = Stored(hist[Greatest(WritersOf(i)) + 1])
        /\ buffer._n < buffer.buffer_size =>
               /\ {i \in 0 .. buffer.buffer_size - 1 : WritersOf(i) # {}}
                      = 0 .. buffer._n - 1
               /\ buffer._p = buffer._n
        /\ buffer._n = buffer.buffer_size =>
               /\ \A i \in 0 .. buffer.buffer_size - 1 : WritersOf(i) # {}
               /\ Len(hist) >= buffer.buffer_size
               /\ buffer._p = (Len(hist) - buffer.buffer_size) % buffer.buffer_size
               /\ Slot(buffer, buffer._p) = Stored(hist[Len(hist) - buffer.buffer_size + 1])

\* C3 witness: a full buffer whose cursor is in the middle, after a sample
\* that followed a wrap-around.
C3_Witness ==
    /\ pc = "ready"
    /\ buffer.buffer_size = 3
    /\ buffer._n = 3
    /\ buffer._p = 1
    /\ Len(hist) = 4
    /\ call.op = "sample"

\* C4: with n >= 1, sample(batch_size) returns exactly batch_size entries,
\* each gathered from a slot index in [0, n) that an append has written.
C4_SampleInRange ==
    (call.op = "sample" /\ call.before._n >= 1) =>
        /\ call.raised = "none"
        /\ Len(call.batch) = call.batch_size
        /\ Len(call.idxes) = call.batch_size
        /\ \A k \in 1 .. call.batch_size :
               /\ call.idxes[k] \in 0 .. call.before._n - 1
               /\ WritersOf(call.idxes[k]) # {}
               /\ call.batch[k] = Slot(call.before, call.idxes[k])

\* C4 witness: a batch of two drawn from a partly filled buffer, the same slot twice.
C4_Witness ==
    /\ call.op = "sample"
    /\ call.before.buffer_size = 3
    /\ call.before._n = 2
    /\ call.batch_size = 2
    /\ call.raised = "none"
    /\ call.idxes[1] = 1
    /\ call.idxes[2] = 1

C8_UnsupportedSpaceRejected ==
    /\ (call.op = "__init__" /\ call.action_space \notin {"Box", "Discrete"}) =>
           (call.raised # "none" /\ pc = "new")
    /\ pc = "ready" => buffer.has_action
    /\ call.op = "append" => call.raised # "AttributeError"

----------------------------------------------------------------------------
(* Properties of the algorithm base classes.                               *)

\* k divides x, stated without the remainder operator
Divides(k, x) == \E q \in 0 .. x : q * k = x

\* C6: for an off-policy instance is_update() is true exactly when env_step is
\* a multiple of update_interval and env_step >= start_steps; with
\* update_interval = 4 and start_steps = 10 it is false at 1..9, 11 and 13 and
\* true at 12, 16, 20.
C6_OffPolicyIsUpdate ==
    (acall.op = "is_update" /\ algo.kind = "off") =>
        /\ acall.result =
               (Divides(algo.update_interval, algo.env_step)
                   /\ ~(algo.env_step < algo.start_steps))
        /\ (algo.update_interval = 4 /\ algo.start_steps = 10) =>
               /\ algo.env_step \in (1 .. 9) \cup {11, 13} => ~acall.result
               /\ algo.env_step \in {12, 16, 20} => acall.result

\* C6 witness: is_update polled at env_step 12 of an instance with
\* update_interval 4 and start_steps 10, answering true.
C6_Witness ==
    /\ acall.op = "is_update"
    /\ algo.kind = "off"
    /\ algo.update_interval = 4
    /\ algo.start_steps = 10
    /\ algo.env_step = 12
    /\ acall.result

\* C7 (as claimed): an off-policy instance exists only when exactly one of
\* update_interval_target and tau was supplied.
C7_ExactlyOneSupplied ==
    (acall.op = "OffPolicyAlgorithm.__init__" /\ apc = "ready") =>
        ((acall.update_interval_target # None) # (acall.tau # None))

\* C7 (amended): construction is accepted exactly when at least one of
\* update_interval_target and tau is supplied with a non-zero value, both
\* included; otherwise the assert statement raises AssertionError and no
\* instance is produced.
C7_AtLeastOneSupplied ==
    acall.op = "OffPolicyAlgorithm.__init__" =>
        LET given(v) == v # None /\ v # <<0>>
            some == given(acall.update_interval_target) \/ given(acall.tau)
        IN /\ some => (apc = "ready" /\ acall.raised = "none" /\ algo.kind = "off")
           /\ ~some => (apc = "rejected" /\ acall.raised = "AssertionError"
                           /\ algo = NoAlgo)

\* C7 witness: construction with both arguments supplied has returned an instance.
C7_Witness ==
    /\ acall.op = "OffPolicyAlgorithm.__init__"
    /\ acall.update_interval_target = <<2>>
    /\ acall.tau = <<5>>
    /\ apc = "ready"

\* C9: each step call adds exactly 1 to env_step, to the ticks of the
\* environment and to the appends issued; env_step equals the number of step
\* calls and of appends, no call decreases it, and the end of an episode does
\* not reset it.
C9_EnvStepCountsSteps ==
    apc = "ready" =>
        /\ algo.env_step = log.steps
        /\ algo.env_step = log.appends
        /\ algo.env_step = env.ticks
        /\ acall.op = "step" =>
               /\ algo.env_step = acall.env_step + 1
               /\ env.ticks = acall.ticks + 1
               /\ log.appends = acall.appends + 1
        /\ acall.op = "is_update" =>
               /\ algo.env_step = acall.env_step
               /\ env.ticks = acall.ticks
               /\ log.appends = acall.appends

\* C9 witness: a step that ended the second episode, with env_step beyond
\* the length of one episode.
C9_Witness ==
    /\ acall.op = "step"
    /\ acall.done
    /\ env.resets = 2
    /\ algo.env_step = 5
    /\ loop.t = 0

\* the episode ended only because t reached the episode limit
TruncatedOnly ==
    acall.done /\ ~acall.terminated /\ acall.t + 1 = env._max_episode_steps

\* C10 (as claimed): the stored mask is false when the episode ended only
\* because t reached the episode limit, and is the done flag otherwise.
C10_MaskIsDoneUnlessTruncatedOnly ==
    acall.op = "step" =>
        /\ log.last.mask = acall.mask
        /\ TruncatedOnly => ~acall.mask
        /\ ~TruncatedOnly => (acall.mask = acall.done)

\* C10 (amended): the stored mask is false whenever t, after its increment,
\* equals the episode limit, also when the environment terminated on that
\* very tick, and is the done flag at every other t; so a truncation is never
\* stored as a terminal and a termination before the limit always is.
C10_MaskFalseAtLimit ==
    acall.op = "step" =>
        /\ log.last.mask = acall.mask
        /\ acall.t + 1 = env._max_episode_steps => ~acall.mask
        /\ acall.t + 1 # env._max_episode_steps => (acall.mask = acall.done)
        /\ TruncatedOnly => ~log.last.mask
        /\ (acall.terminated /\ acall.t + 1 < env._max_episode_steps) => log.last.mask

\* C10 witness: the environment terminated on the tick on which t reached
\* the episode limit, and the mask stored is false.
C10_Witness ==
    /\ acall.op = "step"
    /\ acall.terminated
    /\ acall.done
    /\ acall.t + 1 = env._max_episode_steps
    /\ ~log.last.mask

\* C11: when the environment reports done, step resets the environment and
\* returns the reset state with episode step counter 0; when it does not, step
\* returns the environment's next state with t+1 and does not reset. The
\* transition appended carries the next state that env.step answered.
C11_ResetOnDone ==
    acall.op = "step" =>
        /\ log.last.next_state = acall.next_state
        /\ log.last.next_state \in Observations
        /\ loop = [state |-> acall.ret_state, t |-> acall.ret_t]
        /\ acall.done =>
               /\ acall.ret_state \in ResetStates
               /\ acall.ret_t = 0
               /\ env.resets = acall.resets + 1
               /\ env.elapsed = 0
        /\ ~acall.done =>
               /\ acall.ret_state = acall.next_state
               /\ acall.ret_t = acall.t + 1
               /\ env.resets = acall.resets
               /\ env.elapsed = acall.t + 1

\* C11 witness: a step on which the episode was truncated, not terminated:
\* the reset state and 0 came back, the appended transition keeps the next state.
C11_Witness ==
    /\ acall.op = "step"
    /\ acall.done
    /\ ~acall.terminated
    /\ loop.t = 0
    /\ loop.state \in ResetStates
    /\ log.last.next_state # loop.state

\* C12: for an off-policy instance the action of the k-th step call is drawn
\* from the action space when k <= start_steps and from explore when
\* k > start_steps; so exactly the first start_steps transitions come from
\* random actions and explore is not called during the warm-up.
C12_WarmUpActions ==
    (apc = "ready" /\ algo.kind = "off") =>
        /\ log.sampled =
               (IF log.steps <= algo.start_steps THEN log.steps ELSE algo.start_steps)
        /\ log.explored = log.steps - log.sampled
        /\ log.steps <= algo.start_steps => log.explored = 0
        /\ acall.op = "step" =>
               /\ log.last.source = acall.source
               /\ log.steps <= algo.start_steps =>
                      acall.source = "env.action_space.sample"
               /\ log.steps > algo.start_steps => acall.source = "explore"

\* C12 witness: the last step of a warm-up of 10 steps, still a random action.
C12_Witness ==
    /\ algo.kind = "off"
    /\ algo.start_steps = 10
    /\ acall.op = "step"
    /\ log.steps = 10
    /\ log.sampled = 10
    /\ acall.source = "env.action_space.sample"

\* C13: for an on-policy instance is_update() is true exactly when env_step is
\* a multiple of buffer_size.
C13_OnPolicyIsUpdate ==
    (acall.op = "is_update" /\ algo.kind = "on") =>
        (acall.result = Divides(algo.buffer_size, algo.env_step))

\* C13 witness: is_update polled after six steps of an instance whose
\* buffer_size is 3, answering true.
C13_Witness ==
    /\ acall.op = "is_update"
    /\ algo.kind = "on"
    /\ algo.buffer_size = 3
    /\ algo.env_step = 6
    /\ acall.result

\* C18 (as claimed): whenever update_interval_target is supplied the target
\* update is a hard copy (tau = 1.0) and the interval is recorded, whatever tau
\* was passed; the supplied tau is used only when update_interval_target is absent.
C18_HardCopyWhenIntervalSupplied ==
    (acall.op = "OffPolicyAlgorithm.__init__" /\ apc = "ready") =>
        /\ acall.update_interval_target # None =>
               /\ algo.tau = <<1000>>
               /\ algo.update_interval_target = acall.update_interval_target
        /\ acall.update_interval_target = None => algo.tau = acall.tau

\* C18 (amended): the mode is fixed at construction and no later call changes
\* it. When update_interval_target is supplied with a non-zero value the
\* target update is a hard copy (tau = 1.0) and the interval is recorded,
\* whatever tau was passed; when it is absent or 0 the supplied tau is the
\* blend coefficient and no interval is recorded. An instance built without
\* tau, as QLearning builds it, is always in hard-copy mode.
C18_HardCopyWhenIntervalNonZero ==
    /\ (acall.op = "OffPolicyAlgorithm.__init__" /\ apc = "ready") =>
           LET uit == acall.update_interval_target
               given == uit # None /\ uit # <<0>>
           IN /\ given => (algo.tau = <<1000>> /\ algo.update_interval_target = uit)
              /\ ~given => (algo.tau = acall.tau /\ algo.update_interval_target = None)
              /\ acall.tau = None => (algo.tau = <<1000>> /\ given)
    /\ (apc = "ready" /\ algo.kind = "off") =>
           /\ algo.update_interval_target # None => algo.tau = <<1000>>
           /\ algo.update_interval_target = None =>
                  (algo.tau \in Taus /\ algo.tau # None /\ algo.tau # <<0>>)

\* C18 witness: an instance built with both an interval and a tau is in
\* hard-copy mode, and still is after it has stepped.
C18_Witness ==
    /\ apc = "ready"
    /\ algo.kind = "off"
    /\ algo.update_interval_target = <<2>>
    /\ algo.tau = <<1000>>
    /\ acall.op = "step"
    /\ algo.env_step = 3

\* C19 (as claimed): at env_step = 0 is_update() is false, for on-policy
\* instances and for off-policy instances with any start_steps >= 0.
C19_NoUpdateBeforeFirstStep ==
    (acall.op = "is_update" /\ algo.env_step = 0) => ~acall.result

\* C19 (amended): at env_step = 0 is_update() is false only for an off-policy
\* instance with start_steps >= 1; for an on-policy instance and for an
\* off-policy instance with start_steps = 0 it is true, since 0 is a multiple
\* of every interval.
C19_UpdateAtZeroUnlessWarmUp ==
    (acall.op = "is_update" /\ algo.env_step = 0) =>
        (acall.result = (algo.kind = "on" \/ algo.start_steps < 1))

\* C19 witness: is_update polled on a freshly constructed on-policy instance
\* answers true.
C19_Witness ==
    /\ acall.op = "is_update"
    /\ algo.kind = "on"
    /\ algo.env_step = 0
    /\ log.steps = 0
    /\ acall.result

\* C15 (as claimed): capacity 5, transitions 1..7 appended: the fill count is
\* 5 and transition j (3 <= j <= 7) is at position j mod 5.
C15_ExampleAtJMod5 ==
    (pc = "ready" /\ Len(hist) = 7) =>
        /\ buffer._n = 5
        /\ \A j \in 3 .. 7 : buffer.state[j % 5] = j

\* C15 (amended): capacity 5, transitions 1..7 appended: the fill count is 5,
\* the stored transitions are exactly 3..7, and transition j is at position
\* (j - 1) mod 5: 6 at 0, 7 at 1, 3 at 2, 4 at 3, 5 at 4.
C15_ExampleAtJMinus1Mod5 ==
    (pc = "ready" /\ Len(hist) = 7) =>
        /\ buffer._n = 5
        /\ {buffer.state[i] : i \in 0 .. 4} = 3 .. 7
        /\ \A j \in 3 .. 7 : Slot(buffer, (j - 1) % 5) = Stored(hist[j])
        /\ buffer.state = [i \in 0 .. 4 |-> IF i < 2 THEN i + 6 ELSE i + 1]

\* C15 witness: the seventh append into the buffer of capacity 5 has returned.
C15_Witness ==
    /\ pc = "ready"
    /\ buffer.buffer_size = 5
    /\ Len(hist) = 7
    /\ hist[7].state = 7
    /\ call.op = "append"

----------------------------------------------------------------------------
(* Properties of the training loop.                                        *)

\* C14: on-policy, rollout buffer of capacity C = buffer_size, loop of step then
\* update exactly when is_update(): every drain finds exactly C appends (so
\* env_step = drains * C + write pointer), the write pointer never exceeds C,
\* and the overflow error is never raised.
C14_RolloutNeverOverflows ==
    owned.cls = "RolloutBuffer" =>
        /\ owned.capacity = algo.buffer_size
        /\ owned.ptr <= owned.capacity
        /\ owned.raised = "none"
        /\ lpc # "crashed"
        /\ (lpc = "update" => owned.ptr = owned.capacity)
        /\ (lpc = "step" => owned.ptr < owned.capacity)
        /\ (owned.drains >= 1 => owned.drained = owned.capacity)
        /\ log.appends = owned.drains * owned.capacity + owned.ptr

\* C14 witness: a second drain of a rollout buffer of capacity 2 or more.
C14_Witness ==
    /\ owned.cls = "RolloutBuffer"
    /\ owned.capacity >= 2
    /\ owned.drains = 2
    /\ owned.learning_step = 2
    /\ owned.ptr = 0

\* the return of the raw transitions ep[a .. b], discounted from ep[a], in the
\* units of DiscountedSum
RECURSIVE ExpectedReturn(_, _, _, _, _)
ExpectedReturn(ep, a, b, gamma, nstep) ==
    IF a > b THEN 0
    ELSE Pow(10, nstep - 1) * ep[a].reward
             + (gamma * ExpectedReturn(ep, a + 1, b, gamma, nstep)) \div 10

\* the fold f starts at ep[a] and ends at ep[b]
FoldsRange(f, ep, a, b, gamma, nstep) ==
    /\ f.state = ep[a].state
    /\ f.action = ep[a].action
    /\ f.next_state = ep[b].next_state
    /\ f.reward = ExpectedReturn(ep, a, b, gamma, nstep)

\* C16: n-step accumulation. After a feed that does not end the episode: no
\* fold while fewer than nstep raw transitions of the episode were fed;
\* afterwards one fold per feed, over the nstep most recent ones, and the
\* oldest is dropped. After a feed that ends the episode: one fold for every
\* suffix of the window, the window is empty, and as many folds were committed
\* as raw transitions were fed in the episode.
C16_NStepLosesNothing ==
    (owned.cls = "ReplayBuffer" /\ lpc = "poll") =>
        LET ep == owned.episode
            m  == Len(ep)
            k  == owned.nstep
            em == owned.emitted
        IN /\ Len(owned.window) < k
           /\ ~acall.done /\ m < k =>
                 /\ em = <<>>
                 /\ owned.window = ep
                 /\ owned.committed = 0
           /\ ~acall.done /\ m >= k =>
                 /\ Len(em) = 1
                 /\ FoldsRange(em[1], ep, m - k + 1, m, owned.gamma, k)
                 /\ owned.window = SubSeq(ep, m - k + 2, m)
                 /\ owned.committed = m - k + 1
           /\ acall.done =>
                 /\ owned.window = <<>>
                 /\ Len(em) = Min(m, k)
                 /\ \A j \in 1 .. Len(em) :
                       FoldsRange(em[j], ep, m - Len(em) + j, m, owned.gamma, k)
                 /\ owned.committed = m

\* C16 witness: an episode that ends at its second step while the window of
\* three is still filling; two shrinking folds are emitted.
C16_Witness ==
    /\ owned.cls = "ReplayBuffer"
    /\ lpc = "poll"
    /\ owned.nstep = 3
    /\ acall.done
    /\ Len(owned.episode) = 2
    /\ Len(owned.emitted) = 2
    /\ owned.committed = 2
    /\ owned.window = <<>>

\* C20 (as claimed): off-policy, loop of step then update when is_update():
\* at every update the fill count is min(env_step, C), at least 1 and at
\* least min(start_steps, C), and sample never finds the buffer empty.
C20_NonEmptyAtEveryUpdate ==
    (owned.cls = "ReplayBuffer" /\ algo.kind = "off") =>
        /\ lpc = "update" =>
              /\ buffer._n = Min(algo.env_step, buffer.buffer_size)
              /\ buffer._n >= 1
              /\ buffer._n >= Min(algo.start_steps, buffer.buffer_size)
        /\ call.op = "sample" => call.raised # "ValueError"

\* C20 (amended): the fill count is min(env_step - pending, C), where pending
\* < nstep is the number of raw transitions waiting in the n-step window.
\* With nstep = 1 nothing is pending: at every update the fill count is
\* min(env_step, C), at least 1 and at least min(start_steps, C), and sample
\* succeeds. Only with nstep > 1 can sample find the buffer empty.
C20_NonEmptyAtEveryOneStepUpdate ==
    (owned.cls = "ReplayBuffer" /\ algo.kind = "off") =>
        /\ Len(owned.window) < owned.nstep
        /\ buffer._n = Min(algo.env_step - Len(owned.window), buffer.buffer_size)
        /\ (lpc = "update" /\ owned.nstep = 1) =>
              /\ buffer._n = Min(algo.env_step, buffer.buffer_size)
              /\ buffer._n >= 1
              /\ buffer._n >= Min(algo.start_steps, buffer.buffer_size)
        /\ (call.op = "sample" /\ owned.nstep = 1) => call.raised = "none"
        /\ (call.op = "sample" /\ call.raised # "none") =>
              /\ call.raised = "ValueError"
              /\ call.before._n = 0
              /\ owned.nstep > 1
              /\ lpc = "crashed"

\* C20 witness: an update of a one-step instance with a warm-up of 2 has
\* sampled a full buffer of capacity 3.
C20_Witness ==
    /\ owned.cls = "ReplayBuffer"
    /\ owned.nstep = 1
    /\ algo.start_steps = 2
    /\ call.op = "sample"
    /\ call.raised = "none"
    /\ call.before._n = 3
    /\ owned.learning_step >= 1

----------------------------------------------------------------------------
(* Properties of the prioritized replay buffer.                            *)

\* C17: after any sequence of append and update_priority calls, wrap-arounds
\* included, the slot an append has just written (the k-th append writes slot
\* k mod C) carries the running maximum priority, which is at least every
\* priority value observed so far; and every slot carries the priority of the
\* last write to it.
C17_NewGetsMaxAndLastWriterWins ==
    per.op # "none" =>
        /\ per.op = "append" =>
              LET slot == (per.appends - 1) % per.buffer_size
              IN /\ per.slot = slot
                 /\ per.priority[slot] = per.max_priority
                 /\ \A v \in per.observed : per.priority[slot] >= v
        /\ \A v \in per.observed : per.max_priority >= v
        /\ \A i \in 0 .. per.buffer_size - 1 : per.priority[i] = per.last[i]
        /\ per._n = Min(per.appends, per.buffer_size)

\* C17 witness: an append has wrapped around and recycled a slot whose priority
\* update_priority had set below the running maximum.
C17_Witness ==
    /\ per.op = "append"
    /\ per.appends > per.buffer_size
    /\ per.buffer_size >= 2
    /\ per.max_priority = 3
    /\ per.prev \in {1, 2}
    /\ per.priority[per.slot] = 3

====
